---- MODULE Spec2Model ----
(***************************************************************************)
(* Model of the three search-engine seeding pipelines:                     *)
(*   docker-services/elasticsearch-init/elasticsearch_init.py  ("es")      *)
(*   docker-services/solr-init/solr_init.py                    ("solr")    *)
(*   docker-services/vespa-init/vespa_init.py                  ("vespa")   *)
(* Spec     : main() of each engine variant, run repeatedly against one    *)
(*            engine; every request's response is chosen by the            *)
(*            environment.                                                 *)
(* SpecJoin : merge_docs_with_embeddings applied to bounded inputs.        *)
(***************************************************************************)
EXTENDS Integers, Sequences, FiniteSets, TLC

----------------------------------------------------------------------------
(* Bounds of the model *)

\* largest DEFAULT_TIMEOUT the environment sets (the gate's attempt cap)
MaxTimeout == 2
\* longest dataset file, in documents
MaxDocs == 3
\* number of pipeline runs against the same engine
MaxRuns == 2
\* longest document sequence handed to the joiner in SpecJoin
MaxJoinDocs == 2
\* longest embeddings file, in lines, in SpecLoad
MaxLines == 2

\* batch size of the ingestors (1000 in the source, scaled down)
INDEX_BATCH_SIZE == 2
\* round_vector's digits is 12: a component is held as an integer number of
\* units of 10^-(12+1), so one step of the 12th decimal digit is Scale units
Scale == 10

----------------------------------------------------------------------------
(* Values *)

Engines == {"es", "solr", "vespa"}

\* a Python dict is a function whose DOMAIN is its key set
EmptyDict == [k \in {} |-> 0]

Put(d, k, v) == [x \in (DOMAIN d) \cup {k} |-> IF x = k THEN v ELSE d[x]]

Pop(d, k) == [x \in (DOMAIN d) \ {k} |-> d[x]]

Has(d, k) == k \in DOMAIN d


\* a JSON scalar used as an id: its JSON type and its Python str() text
StrId(s) == [t |-> "str", s |-> s]

IntId(s) == [t |-> "int", s |-> s]

\* str(x) of an id value: the text without the type ("7" for 7 and for "7")
PyStr(v) == v.s

\* str(doc.get("id")): dict.get gives None for a missing key, str(None) = "None"
StrOfIdField(doc) == IF Has(doc, "id") THEN PyStr(doc["id"]) ELSE "None"

----------------------------------------------------------------------------
(* VectorJoiner *)

\* round(float(x), 12): nearest multiple of Scale, a tie goes to the even one
RoundComponent(x) ==
    LET q == x \div Scale
        r == x % Scale
    IN  IF 2 * r < Scale THEN q * Scale
        ELSE IF 2 * r > Scale THEN (q + 1) * Scale
        ELSE IF q % 2 = 0 THEN q * Scale ELSE (q + 1) * Scale

\* the joiner with the rounding left out
round_vector_unrounded(vector) == vector

round_vector(vector) == [i \in 1..Len(vector) |-> RoundComponent(vector[i])]

\* doc = d: the same dict object under a second name
DictAlias(d) == [arg |-> d, doc |-> d, same |-> TRUE]

\* doc = dict(d): a new dict object with d's items. The pair of objects
\* (arg: the caller's d, doc: the local one) and whether they are one object
DictCopy(d) == [arg |-> d, doc |-> d, same |-> FALSE]

\* doc[k] = v: written to the object doc, and seen through arg only if the
\* two are one object
SetItem(o, k, v) ==
    [arg |-> IF o.same THEN Put(o.arg, k, v) ELSE o.arg,
     doc |-> Put(o.doc, k, v),
     same |-> o.same]

\* one iteration of the joiner's loop for the input document d: the objects
\* d and doc when merged.append(doc) is reached
MergeObjects(d, embeddings) ==
    LET o == DictCopy(d)
        doc_id == StrOfIdField(o.doc)
    IN  IF Has(embeddings, doc_id)
        THEN SetItem(o, "vector", round_vector(embeddings[doc_id]))
        ELSE o

MergeOne(d, embeddings) == MergeObjects(d, embeddings).doc

\* the caller's list of documents when the joiner has returned: the list is
\* only iterated, its elements are the objects d of the iterations
DocsAfterMerge(docs, embeddings) ==
    [n \in 1..Len(docs) |-> MergeObjects(docs[n], embeddings).arg]

RECURSIVE MergeLoop(_, _, _, _)
MergeLoop(docs, embeddings, i, merged) ==
    IF i > Len(docs) THEN merged
    ELSE MergeLoop(docs, embeddings, i + 1,
                   Append(merged, MergeOne(docs[i], embeddings)))

\* the joiner appending inside "if vector is not None": an inner join
merge_docs_inner_join(docs, embeddings) ==
    SelectSeq(MergeLoop(docs, embeddings, 1, <<>>), LAMBDA d : Has(d, "vector"))

merge_docs_with_embeddings(docs, embeddings) ==
    MergeLoop(docs, embeddings, 1, <<>>)

\* next(iter(embeddings.values())): Python dicts keep insertion order, the
\* order of the file's lines, which the model does not keep: any one vector
get_embedding_dimension(embeddings, first) == Len(embeddings[first])

----------------------------------------------------------------------------
(* Inputs of the joiner in SpecJoin *)

JoinIds == {StrId("a"), IntId("7"), StrId("7"), StrId("None"), StrId("")}

Titles == {"t", "u"}

JoinVectors == {<<4, 15>>, <<25, -6>>, <<-15, 0>>}

\* documents of a dataset: with or without an id
JoinDocs ==
    LET base == {[title |-> t] : t \in Titles}
    IN  base \cup {Put(b, "id", x) : b \in base, x \in JoinIds}

\* keys the embeddings loader can produce: the str() of a truthy id
EmbKeys == {"a", "7", "None"}

EmbIndexes(keys, vectors) == UNION {[K -> vectors] : K \in SUBSET keys}

SeqsUpTo(S, n) == UNION {[1..k -> S] : k \in 0..n}


----------------------------------------------------------------------------
(* State *)

VARIABLES
    \* configuration, read from the environment at import time
    engine,           \* which of the three scripts runs
    FORCE_REINDEX,
    DEFAULT_TIMEOUT,
    \* the process running main()
    pc,               \* position in main()
    attempt,          \* attempts made by the readiness gate being waited on
    error,            \* the exception that ended the run and where main() was
    exit_status,      \* RUNNING until the process exits
    count_docs,       \* what the count probe returned
    docs,             \* load_dataset_to_dict's result
    embeddings,       \* load_embeddings_to_dict's result
    working,          \* the sequence handed to the ingestor
    i,                \* index of the batch being sent (0-based)
    j,                \* vespa: index of the document in the batch (0-based)
    batch_errors,     \* vespa: failed submissions of the current batch
    index_success,    \* vespa: no batch has had a failure so far
    dimension,        \* the inferred embedding dimension, 0 if none
    \* the engine and the file system, which outlive a run
    corpus,           \* documents visible to queries, by routing key
    pending,          \* solr: documents added but not committed
    index_exists,     \* es: the index has been created
    tmp_file,         \* TMP_FILE exists
    \* history
    run,              \* number of the current run
    start_corpus,     \* corpus when the current run started
    calls,            \* functions main() has called in the current run
    requests,         \* requests of the current run that were answered, in
                      \* order (a health poll that failed is only counted)
    response,         \* what the request of the last step came back with
    \* SpecJoin: one call of merge_docs_with_embeddings
    j_pc,
    j_docs,           \* the caller's documents, as they are now
    j_embeddings,     \* the caller's embedding index, as it is now
    j_merged,         \* what the call returned
    j_args,           \* history: the two arguments when the call was made
    \* SpecLoad: one call of load_embeddings_to_dict
    l_pc,
    l_file,           \* the embeddings file: whether it exists, and its lines
    l_result          \* the call's outcome: the index returned, or what it raised

config_vars == <<engine, FORCE_REINDEX, DEFAULT_TIMEOUT>>

proc_vars == <<pc, attempt, error, exit_status, count_docs, docs, embeddings,
               working, i, j, batch_errors, index_success, dimension>>

engine_vars == <<corpus, pending, index_exists, tmp_file>>

hist_vars == <<run, start_corpus, calls, requests, response>>

join_vars == <<j_pc, j_docs, j_embeddings, j_merged, j_args>>

load_vars == <<l_pc, l_file, l_result>>

call_vars == <<join_vars, load_vars>>

vars == <<config_vars, proc_vars, engine_vars, hist_vars, call_vars>>

RUNNING == 0 - 1

\* a request sent to the engine, with the response it got: ok is the status
\* of the response, errors whether a response with a good status reports
\* documents the engine did not take
Req(kind, resp, commit, keys, body) ==
    [kind |-> kind, ok |-> (resp \in {"ok", "item_errors"}),
     errors |-> (resp = "item_errors"), commit |-> commit, keys |-> keys,
     body |-> body]

Sent(kind, resp) == Append(requests, Req(kind, resp, FALSE, <<>>, <<>>))

\* sys.exit(status), or an exception nobody catches (Python exits with 1)
NoError == [type |-> "none", at |-> "none"]

Exit(status, err) ==
    /\ pc' = "exited"
    /\ exit_status' = status
    /\ error' = IF err = "none" THEN NoError ELSE [type |-> err, at |-> pc]


----------------------------------------------------------------------------
(* ReadinessGate *)

\* what one health request can come back with
HealthResponses == {"ok", "http_error", "transport_error"}

\* /state/v1/health of the config server: a 200 body may say "up", say
\* something else, carry no status field, or not be JSON at all
ConfigHealthResponses ==
    {"up", "not_up", "no_status", "bad_json", "http_error", "transport_error"}

\* pc after the gate of each engine has passed
AfterGate == [es |-> "create_index", solr |-> "count", vespa |-> "count"]

\* the loop written as "while True": a failed attempt is not counted
GateAttemptUncounted(kind, responses, next) ==
    /\ attempt < DEFAULT_TIMEOUT
    /\ \E resp \in responses :
         /\ response' = resp
         /\ IF resp = "ok"
            THEN pc' = next /\ attempt' = 0 /\ requests' = Sent(kind, resp)
            ELSE pc' = pc /\ attempt' = attempt /\ UNCHANGED requests
    /\ UNCHANGED <<error, exit_status>>

\* one iteration of "for attempt in range(timeout)": the request, then either
\* return or swallow the failure, sleep and go round again
GateAttempt(kind, responses, next) ==
    /\ attempt < DEFAULT_TIMEOUT
    /\ \E resp \in responses :
         /\ response' = resp
         /\ IF resp = "ok"
            THEN pc' = next /\ attempt' = 0 /\ requests' = Sent(kind, resp)
            ELSE pc' = pc /\ attempt' = attempt + 1 /\ UNCHANGED requests
    /\ UNCHANGED <<error, exit_status>>

\* the gate returning normally when its loop runs out
GateExhaustedReturns ==
    /\ attempt >= DEFAULT_TIMEOUT
    /\ pc' = IF pc = "wait_config" THEN "deploy" ELSE AfterGate[engine]
    /\ response' = "none"
    /\ UNCHANGED <<attempt, requests, error, exit_status>>

\* main() leaving with status 0 from its "except Exception"
GateExhaustedExitsZero ==
    /\ attempt >= DEFAULT_TIMEOUT
    /\ pc' = "exited"
    /\ exit_status' = 0
    /\ error' = [type |-> "ReadinessTimeout", at |-> pc]
    /\ response' = "none"
    /\ UNCHANGED <<attempt, requests>>

\* the loop ran out: RuntimeError, which main() turns into sys.exit(1)
GateExhausted ==
    /\ attempt >= DEFAULT_TIMEOUT
    /\ Exit(1, "ReadinessTimeout")
    /\ response' = "none"
    /\ UNCHANGED <<attempt, requests>>

GateFrame ==
    UNCHANGED <<config_vars, count_docs, docs, embeddings, working, i, j,
                batch_errors, index_success, dimension, engine_vars, run,
                start_corpus, calls, call_vars>>

wait_for_elasticsearch ==
    /\ engine = "es" /\ pc = "wait"
    /\ \/ GateAttempt("health", HealthResponses, AfterGate[engine])
       \/ GateExhausted
    /\ GateFrame

wait_for_solr_core ==
    /\ engine = "solr" /\ pc = "wait"
    /\ \/ GateAttempt("health", HealthResponses, AfterGate[engine])
       \/ GateExhausted
    /\ GateFrame

\* response.raise_for_status(); response.json()['status']['code'] == "up";
\* only RequestException and ValueError are caught inside the loop, so the
\* KeyError of a body without 'status' leaves the gate and reaches main()'s
\* "except Exception", which exits with 1
wait_for_vespa_config_server ==
    /\ engine = "vespa" /\ pc = "wait_config"
    /\ \/ /\ attempt < DEFAULT_TIMEOUT
          /\ \E resp \in ConfigHealthResponses :
               /\ response' = resp
               /\ IF resp = "up"
                  THEN /\ pc' = "deploy" /\ attempt' = 0
                       /\ requests' = Sent("config_health", "ok")
                       /\ UNCHANGED <<error, exit_status>>
                  ELSE IF resp = "no_status"
                  THEN Exit(1, "KeyError") /\ UNCHANGED <<attempt, requests>>
                  ELSE /\ pc' = pc /\ attempt' = attempt + 1
                       /\ UNCHANGED <<error, exit_status, requests>>
       \/ GateExhausted
    /\ GateFrame

\* POST of the zipped application package; any failure is re-raised and
\* main() exits with 1
deploy_vespa_app ==
    /\ engine = "vespa" /\ pc = "deploy"
    /\ \E resp \in HealthResponses :
         /\ requests' = Sent("deploy", resp)
         /\ response' = resp
         /\ IF resp = "ok"
            THEN pc' = "wait_app" /\ UNCHANGED <<error, exit_status>>
            ELSE Exit(1, "DeployFailed")
    /\ UNCHANGED attempt
    /\ GateFrame

\* /status.html must answer 200
wait_for_vespa_app ==
    /\ engine = "vespa" /\ pc = "wait_app"
    /\ \/ GateAttempt("health", HealthResponses, AfterGate[engine])
       \/ GateExhausted
    /\ GateFrame

----------------------------------------------------------------------------
(* es: create_index *)

\* HEAD on the index; unless it answers ok, PUT the index; a failed PUT is
\* re-raised and nobody catches it
create_index ==
    /\ engine = "es" /\ pc = "create_index"
    /\ \E head \in {"transport_error"} \cup
                   (IF index_exists THEN {"ok"} ELSE {"http_error"}) :
         IF head = "ok"
         THEN /\ requests' = Sent("head_index", head)
              /\ response' = head
              /\ pc' = "count"
              /\ UNCHANGED <<index_exists, error, exit_status>>
         ELSE \E put \in {"transport_error", "http_error"} \cup
                         (IF index_exists THEN {} ELSE {"ok"}) :
                /\ requests' = Append(Sent("head_index", head),
                                      Req("put_index", put, FALSE, <<>>, <<>>))
                /\ response' = put
                /\ IF put = "ok"
                   THEN /\ index_exists' = TRUE /\ pc' = "count"
                        /\ UNCHANGED <<error, exit_status>>
                   ELSE Exit(1, "CreateIndexFailed") /\ UNCHANGED index_exists
    /\ calls' = calls \cup {"create_index"}
    /\ UNCHANGED <<config_vars, attempt, count_docs, docs, embeddings, working,
                   i, j, batch_errors, index_success, dimension, corpus,
                   pending, tmp_file, run, start_corpus, call_vars>>

----------------------------------------------------------------------------
(* CorpusSizeProbe *)

\* a 200 with the count, a 200 whose body is not JSON or lacks the count
\* field, an error status, or no response
CountResponses == {"ok", "no_count", "bad_body", "http_error", "transport_error"}

\* the outcome of a Python call: it returns a value or raises
Returned(v) == [raised |-> FALSE, value |-> v]

Raised(e) == [raised |-> TRUE, value |-> e]

\* the probe letting its exception out
get_count_propagating(resp) ==
    IF resp = "ok" THEN Returned(Cardinality(corpus)) ELSE Raised("CountProbeFailure")

\* es: int(body.get("count", 0)), and 0 from "except Exception"
get_count(resp) ==
    IF resp = "ok" THEN Returned(Cardinality(corpus)) ELSE Returned(0)

\* solr: int(body.get("response", {}).get("numFound", 0) or 0), else 0
get_num_found(resp) ==
    IF resp = "ok" THEN Returned(Cardinality(corpus)) ELSE Returned(0)

\* vespa: int(data.get("root", {}).get("fields", {}).get("totalCount", 0)), else 0
get_vespa_doc_count(resp) ==
    IF resp = "ok" THEN Returned(Cardinality(corpus)) ELSE Returned(0)

Probe(resp) ==
    CASE engine = "es" -> get_count(resp)
      [] engine = "solr" -> get_num_found(resp)
      [] engine = "vespa" -> get_vespa_doc_count(resp)

\* the decision without the FORCE_REINDEX override
ShouldIngestOnlyWhenEmpty(count) == count = 0

\* the decision that never skips
ShouldIngestAlways(count) == TRUE

\* main(): "if count_docs == 0 or FORCE_REINDEX"
ShouldIngest(count) == count = 0 \/ FORCE_REINDEX

\* main(): the probe, then the decision: load and ingest, or return 0
count_probe ==
    /\ pc = "count"
    /\ \E resp \in CountResponses :
         LET r == Probe(resp) IN
         /\ requests' = Sent("count", resp)
         /\ response' = resp
         /\ IF r.raised
            THEN Exit(1, r.value) /\ UNCHANGED count_docs
            ELSE /\ count_docs' = r.value
                 /\ IF ShouldIngest(r.value)
                    THEN pc' = "load_dataset" /\ UNCHANGED <<error, exit_status>>
                    ELSE Exit(0, "none")
    /\ calls' = calls \cup {"count_probe"}
    /\ UNCHANGED <<config_vars, attempt, docs, embeddings, working, i, j,
                   batch_errors, index_success, dimension, engine_vars, run,
                   start_corpus, call_vars>>


----------------------------------------------------------------------------
(* Dataset and embeddings files *)

\* a dataset file, in the order of its lines: documents with an id (a
\* string or a number) and one without
PipeFile ==
    <<[id |-> StrId("a"), title |-> "t"], [title |-> "t"],
      [id |-> IntId("7"), title |-> "t"], [id |-> StrId("b"), title |-> "t"]>>

\* the lines S of the file, in the file's order
Lines(S) ==
    [n \in 1..Cardinality(S) |->
        PipeFile[CHOOSE x \in S : Cardinality({y \in S : y < x}) = n - 1]]

\* the datasets a run can load: at most MaxDocs lines of the file; the
\* documents of a dataset are distinct (an id is unique in a dataset)
Datasets ==
    {Lines(S) : S \in {T \in SUBSET (1..Len(PipeFile)) : Cardinality(T) <= MaxDocs}}

\* a line of the embeddings file after strip(): empty, not JSON, JSON that
\* is not an object (a list, a number, a string, null), or an object, row
BlankLine == [json |-> "blank", row |-> EmptyDict]

InvalidLine == [json |-> "invalid", row |-> EmptyDict]

NonObjectLine == [json |-> "value", row |-> EmptyDict]

ObjectLine(row) == [json |-> "object", row |-> row]

\* a JSON value of the field 'vector': a list of numbers, or something else
ListValue(v) == [t |-> "list", v |-> v]

StrValue == [t |-> "str", v |-> <<>>]

\* "if _id": None, "" and 0 are false
IdTruthy(row) ==
    /\ Has(row, "id")
    /\ ~(row["id"].s = "" \/ (row["id"].t = "int" /\ row["id"].s = "0"))

\* isinstance(row.get("vector"), list)
VectorIsList(row) == Has(row, "vector") /\ row["vector"].t = "list"

\* row.get("id") on what json.loads returned: an AttributeError unless it is
\* a dict, and "except json.JSONDecodeError" does not catch it
LineRaises(line) == line.json = "value"

\* the body of the loop over the lines, for a line that does not raise
LoadLine(vectors, line) ==
    IF line.json = "object" /\ IdTruthy(line.row) /\ VectorIsList(line.row)
    THEN Put(vectors, PyStr(line.row["id"]), line.row["vector"].v)
    ELSE vectors

RECURSIVE LoadLoop(_, _, _)
LoadLoop(lines, n, vectors) ==
    IF n > Len(lines) THEN Returned(vectors)
    ELSE IF LineRaises(lines[n]) THEN Raised("AttributeError")
    ELSE LoadLoop(lines, n + 1, LoadLine(vectors, lines[n]))

\* load_embeddings_to_dict(path): an empty index if the file does not exist
LoadEmbeddings(file) ==
    IF ~file.exists THEN Returned(EmptyDict) ELSE LoadLoop(file.lines, 1, EmptyDict)

\* inputs of the loader in SpecLoad
LineIds == {StrId("a"), IntId("7")}

LineVectors == {ListValue(<<4, 15>>), ListValue(<<25>>), StrValue}

Rows ==
    {EmptyDict}
      \cup {Put(EmptyDict, "id", x) : x \in LineIds}
      \cup {Put(EmptyDict, "vector", v) : v \in LineVectors}
      \cup {Put(Put(EmptyDict, "id", x), "vector", v) : x \in LineIds, v \in LineVectors}

FileLines == {BlankLine, InvalidLine, NonObjectLine} \cup {ObjectLine(r) : r \in Rows}

EmbeddingsFiles ==
    {[exists |-> FALSE, lines |-> <<>>]}
      \cup {[exists |-> TRUE, lines |-> ls] : ls \in SeqsUpTo(FileLines, MaxLines)}

\* what load_embeddings_to_dict can return (empty when the file is missing)
PipeEmbeddings == EmbIndexes({"a"}, {<<4, 15>>, <<25>>})

\* the file is missing, is not what the loader expects, or holds a dataset
load_dataset_to_dict ==
    /\ pc = "load_dataset"
    /\ \/ \E data \in Datasets :
            /\ docs' = data
            /\ pc' = "load_embeddings"
            /\ UNCHANGED <<error, exit_status>>
       \/ /\ Exit(1, "DatasetError")
          /\ UNCHANGED docs
    /\ calls' = calls \cup {"load_dataset_to_dict"}
    /\ response' = "none"
    /\ UNCHANGED <<config_vars, attempt, count_docs, embeddings, working, i, j,
                   batch_errors, index_success, dimension, engine_vars, run,
                   start_corpus, requests, call_vars>>

\* the test written as "if embeddings is not None:"
TruthyNotNone(e) == TRUE

\* "if embeddings:": a dict is true unless it is empty
Truthy(e) == e # EmptyDict

\* main(): load the embeddings, then "if embeddings:" ... else the plain path
load_embeddings_to_dict ==
    /\ pc = "load_embeddings"
    /\ \E e \in PipeEmbeddings :
         /\ embeddings' = e
         /\ IF Truthy(e)
            THEN pc' = "merge" /\ UNCHANGED working
            ELSE pc' = "index" /\ working' = docs
    /\ calls' = calls \cup {"load_embeddings_to_dict"}
    /\ response' = "none"
    /\ UNCHANGED <<config_vars, attempt, error, exit_status, count_docs, docs,
                   i, j, batch_errors, index_success, dimension, engine_vars,
                   run, start_corpus, requests, call_vars>>

\* main(): infer the dimension, join, write TMP_FILE (json.dump may fail with
\* an OSError that nobody catches)
merge_step ==
    /\ pc = "merge"
    /\ \E first \in DOMAIN embeddings, written \in BOOLEAN :
         /\ dimension' = get_embedding_dimension(embeddings, first)
         /\ IF written
            THEN /\ working' = merge_docs_with_embeddings(docs, embeddings)
                 /\ tmp_file' = TRUE
                 /\ pc' = IF engine = "vespa" THEN "index" ELSE "create_vector_field"
                 /\ UNCHANGED <<error, exit_status>>
            ELSE /\ Exit(1, "OSError")
                 /\ UNCHANGED <<working, tmp_file>>
    /\ calls' = calls \cup {"merge_docs_with_embeddings"}
    /\ response' = "none"
    /\ UNCHANGED <<config_vars, attempt, count_docs, docs, embeddings, i, j,
                   batch_errors, index_success, corpus, pending, index_exists,
                   run, start_corpus, requests, call_vars>>

----------------------------------------------------------------------------
(* SchemaProvisioner (es, solr) *)

\* what the engine can answer to the schema request: done, an error status
\* because the field is there already, an error status for another reason,
\* or no answer at all
SchemaResponses == {"ok", "already_exists", "rejected", "transport_error"}

\* the provisioner raising on an error status too
ProvisionFatalOnErrorStatus(resp) == resp # "ok"

\* what create_vector_field raises on: a requests.RequestException of the
\* PUT/POST itself; a status >= 400 is logged and the function returns
ProvisionFatal(resp) == resp = "transport_error"

\* one request declaring the field 'vector'; a status >= 400 is logged and
\* the function returns; a transport error is re-raised and nobody catches it
create_vector_field ==
    /\ engine \in {"es", "solr"} /\ pc = "create_vector_field"
    /\ \E resp \in SchemaResponses :
         /\ requests' = Append(requests,
                               Req("schema", resp, FALSE, <<>>, <<dimension>>))
         /\ response' = resp
         /\ IF ProvisionFatal(resp)
            THEN Exit(1, "SchemaProvisionFailure")
            ELSE pc' = "index" /\ UNCHANGED <<error, exit_status>>
    /\ calls' = calls \cup {"create_vector_field"}
    /\ UNCHANGED <<config_vars, attempt, count_docs, docs, embeddings, working,
                   i, j, batch_errors, index_success, dimension, engine_vars,
                   run, start_corpus, call_vars>>


----------------------------------------------------------------------------
(* BatchIngestor *)

Min(a, b) == IF a < b THEN a ELSE b

\* (total_docs + INDEX_BATCH_SIZE - 1) // INDEX_BATCH_SIZE
NumBatches(total_docs) == (total_docs + INDEX_BATCH_SIZE - 1) \div INDEX_BATCH_SIZE

\* the slice with start_index left at 0
BatchFromStart(ds, k) ==
    SubSeq(ds, 1, Min((k + 1) * INDEX_BATCH_SIZE, Len(ds)))

\* docs[start_index:end_index] of batch k (0-based)
Batch(ds, k) ==
    SubSeq(ds, k * INDEX_BATCH_SIZE + 1, Min((k + 1) * INDEX_BATCH_SIZE, Len(ds)))

\* a document in the engine: its routing key, or the number the engine gave
\* it when it came without one
Key(s) == [k |-> s, n |-> 0]

AutoKey(c) == [k |-> "", n |-> Cardinality(c) + 1]

\* the routing key sent along with a document, if one is sent
Routed(s) == [has_id |-> TRUE, id |-> s]

Unrouted == [has_id |-> FALSE, id |-> ""]

\* es: the action line of a document, "_id" only if the document has an id
EsActionLine(doc) == IF Has(doc, "id") THEN Routed(PyStr(doc["id"])) ELSE Unrouted

\* es: the source line with the id left among the fields
EsSourceLineKeepsId(doc) == doc

\* es: the source line, the document after doc.pop("id")
EsSourceLine(doc) == IF Has(doc, "id") THEN Pop(doc, "id") ELSE doc

RECURSIVE EsStore(_, _, _)
EsStore(c, lines, n) ==
    IF n > Len(lines) THEN c
    ELSE EsStore(c \cup {IF lines[n].has_id THEN Key(lines[n].id) ELSE AutoKey(c)},
                 lines, n + 1)

IngestFrame ==
    UNCHANGED <<config_vars, attempt, count_docs, docs, embeddings, working,
                dimension, index_exists, tmp_file, run, start_corpus,
                call_vars>>

\* the ingestor with its early return left out
NothingToIndexNever(ds) == FALSE

\* total_docs = len(docs); if total_docs == 0: return
NothingToIndex(ds) == Len(ds) = 0

\* the head of every ingestor: nothing to do for an empty sequence
IngestEntry ==
    /\ pc = "index"
    /\ pc' = IF NothingToIndex(working) THEN "finish" ELSE "batch"
    /\ calls' = calls \cup {"index_documents"}
    /\ response' = "none"

es_index_documents ==
    /\ engine = "es"
    /\ IngestEntry
    /\ UNCHANGED <<error, exit_status, i, j, batch_errors, index_success,
                   corpus, pending, requests>>
    /\ IngestFrame

\* the failure of a batch logged and the batch sent again
BatchFailedRetried == UNCHANGED <<pc, exit_status, error>>

\* except requests.RequestException: raise Exception(...), which nobody
\* catches: main() ends
BatchFailed == Exit(1, "BatchFailed")

\* what POST /_bulk can come back with: besides the outcomes of any request,
\* status 200 with "errors": true and per-item results, some of them failures
BulkResponses == HealthResponses \cup {"item_errors"}

\* the positions of the batch the engine did not take: one of them when the
\* response reports item errors, none (0) otherwise
RejectedItems(resp, batch) ==
    IF resp = "item_errors" THEN 1..Len(batch) ELSE {0}

\* the sequence without its k-th element (all of it when k = 0)
Without(seq, k) ==
    IF k = 0 THEN seq
    ELSE [n \in 1..(Len(seq) - 1) |-> IF n < k THEN seq[n] ELSE seq[n + 1]]

\* response.raise_for_status() looks at the status only; the body of the
\* response is not read
BulkRaises(resp) == resp \in {"http_error", "transport_error"}

\* one iteration of the batch loop: build the ndjson payload, POST /_bulk,
\* raise_for_status; a failure is raised as Exception and ends main()
es_send_batch ==
    /\ engine = "es" /\ pc = "batch"
    /\ LET batch == Batch(working, i)
           lines == [n \in 1..Len(batch) |-> EsActionLine(batch[n])]
           body == [n \in 1..Len(batch) |-> EsSourceLine(batch[n])]
       IN  \E resp \in BulkResponses :
           \E rejected \in RejectedItems(resp, batch) :
             /\ requests' = Append(requests, Req("bulk", resp, FALSE, lines, body))
             /\ response' = resp
             /\ IF ~BulkRaises(resp)
                THEN /\ corpus' = EsStore(corpus, Without(lines, rejected), 1)
                     /\ i' = i + 1
                     /\ pc' = IF i + 1 = NumBatches(Len(working))
                              THEN "finish" ELSE "batch"
                     /\ UNCHANGED <<error, exit_status>>
                ELSE /\ BatchFailed
                     /\ UNCHANGED <<corpus, i>>
    /\ UNCHANGED <<j, batch_errors, index_success, pending, calls>>
    /\ IngestFrame

\* solr: the head of index_documents, and with FORCE_REINDEX the delete of
\* everything, posted with commit=true; its status is not looked at, a
\* transport error is raised by session.post and nobody catches it
solr_index_documents ==
    /\ engine = "solr"
    /\ pc = "index"
    /\ calls' = calls \cup {"index_documents"}
    /\ IF NothingToIndex(working)
       THEN /\ pc' = "finish" /\ response' = "none"
            /\ UNCHANGED <<error, exit_status, corpus, pending, requests>>
       ELSE IF ~FORCE_REINDEX
       THEN /\ pc' = "batch" /\ response' = "none"
            /\ UNCHANGED <<error, exit_status, corpus, pending, requests>>
       ELSE \E resp \in HealthResponses :
              /\ requests' = Append(requests, Req("delete", resp, TRUE, <<>>, <<>>))
              /\ response' = resp
              /\ IF resp = "transport_error"
                 THEN Exit(1, "ConnectionError") /\ UNCHANGED <<corpus, pending>>
                 ELSE /\ pc' = "batch"
                      /\ corpus' = IF resp = "ok" THEN {} ELSE corpus
                      /\ pending' = IF resp = "ok" THEN {} ELSE pending
                      /\ UNCHANGED <<error, exit_status>>
    /\ UNCHANGED <<i, j, batch_errors, index_success>>
    /\ IngestFrame

\* the core takes a batch only if every document has its uniqueKey
SolrResponses(batch) ==
    IF \A n \in 1..Len(batch) : Has(batch[n], "id")
    THEN HealthResponses ELSE HealthResponses \ {"ok"}

\* every batch posted to update_url_commit
CommitParamAlways(is_last_batch) == TRUE

\* current_update_url: update_url_commit if is_last_batch, else
\* update_url_no_commit
CommitParam(is_last_batch) == is_last_batch

\* solr: one iteration of the batch loop: POST /update, commit=true on the
\* last batch only; a failure is raised as Exception and ends main()
solr_send_batch ==
    /\ engine = "solr" /\ pc = "batch"
    /\ LET batch == Batch(working, i)
           is_last_batch == (i = NumBatches(Len(working)) - 1)
           commit == CommitParam(is_last_batch)
           added == {Key(PyStr(batch[n]["id"])) :
                       n \in {m \in 1..Len(batch) : Has(batch[m], "id")}}
       IN  \E resp \in SolrResponses(batch) :
             /\ requests' = Append(requests,
                                   Req("update", resp, commit, <<>>, batch))
             /\ response' = resp
             /\ IF resp = "ok"
                THEN /\ corpus' = IF commit
                                  THEN corpus \cup pending \cup added ELSE corpus
                     /\ pending' = IF commit THEN {} ELSE pending \cup added
                     /\ i' = i + 1
                     /\ pc' = IF is_last_batch THEN "finish" ELSE "batch"
                     /\ UNCHANGED <<error, exit_status>>
                ELSE /\ BatchFailed
                     /\ UNCHANGED <<corpus, pending, i>>
    /\ UNCHANGED <<j, batch_errors, index_success, calls>>
    /\ IngestFrame

feed_vespa_documents ==
    /\ engine = "vespa"
    /\ IngestEntry
    /\ UNCHANGED <<error, exit_status, i, j, batch_errors, index_success,
                   corpus, pending, requests>>
    /\ IngestFrame

\* vespa: one document of the current batch: doc.pop("id") (a KeyError nobody
\* catches if there is none), POST to .../docid/{doc_id}; a failed POST is
\* counted; after the last document of the batch the batch is accounted for
vespa_feed_document ==
    /\ engine = "vespa" /\ pc = "batch"
    /\ LET batch == Batch(working, i)
           doc == batch[j + 1]
           last_of_batch == (j + 1 = Len(batch))
       IN  IF ~Has(doc, "id")
           THEN /\ Exit(1, "KeyError")
                /\ response' = "none"
                /\ UNCHANGED <<i, j, batch_errors, index_success, corpus, requests>>
           ELSE \E resp \in HealthResponses :
                  LET doc_id == PyStr(doc["id"])
                      errors == IF resp = "ok" THEN batch_errors ELSE batch_errors + 1
                  IN
                  /\ requests' = Append(requests,
                         Req("feed", resp, FALSE, <<Routed(doc_id)>>, <<Pop(doc, "id")>>))
                  /\ response' = resp
                  /\ corpus' = IF resp = "ok" THEN corpus \cup {Key(doc_id)} ELSE corpus
                  /\ IF last_of_batch
                     THEN /\ index_success' = (index_success /\ errors = 0)
                          /\ batch_errors' = 0
                          /\ i' = i + 1
                          /\ j' = 0
                          /\ pc' = IF i + 1 = NumBatches(Len(working))
                                   THEN "finish" ELSE "batch"
                     ELSE /\ batch_errors' = errors
                          /\ j' = j + 1
                          /\ UNCHANGED <<index_success, i, pc>>
                  /\ UNCHANGED <<error, exit_status>>
    /\ UNCHANGED <<pending, calls>>
    /\ IngestFrame

----------------------------------------------------------------------------
(* Orchestrator: the end of main(), and the next start of the container *)

\* the plain path unlinks TMP_FILE after the ingestor returned; return 0
main_return ==
    /\ pc = "finish"
    /\ tmp_file' = IF embeddings = EmptyDict THEN FALSE ELSE tmp_file
    /\ Exit(0, "none")
    /\ response' = "none"
    /\ UNCHANGED <<config_vars, attempt, count_docs, docs, embeddings, working,
                   i, j, batch_errors, index_success, dimension, corpus, pending,
                   index_exists, run, start_corpus, calls, requests, call_vars>>

\* main() starts at the first gate of its engine
StartPc == [es |-> "wait", solr |-> "wait", vespa |-> "wait_config"]

ProcInit ==
    /\ pc = StartPc[engine]
    /\ attempt = 0
    /\ error = NoError
    /\ exit_status = RUNNING
    /\ count_docs = 0
    /\ docs = <<>>
    /\ embeddings = EmptyDict
    /\ working = <<>>
    /\ i = 0
    /\ j = 0
    /\ batch_errors = 0
    /\ index_success = TRUE
    /\ dimension = 0

\* the container is started again against the same engine
NextRun ==
    /\ pc = "exited"
    /\ run < MaxRuns
    /\ pc' = StartPc[engine]
    /\ attempt' = 0
    /\ error' = NoError
    /\ exit_status' = RUNNING
    /\ count_docs' = 0
    /\ docs' = <<>>
    /\ embeddings' = EmptyDict
    /\ working' = <<>>
    /\ i' = 0
    /\ j' = 0
    /\ batch_errors' = 0
    /\ index_success' = TRUE
    /\ dimension' = 0
    /\ UNCHANGED <<config_vars, engine_vars, call_vars>>
    /\ run' = run + 1
    /\ start_corpus' = corpus
    /\ calls' = {}
    /\ requests' = <<>>
    /\ response' = "none"

JoinIdle ==
    /\ j_pc = "idle"
    /\ j_docs = <<>>
    /\ j_embeddings = EmptyDict
    /\ j_merged = <<>>
    /\ j_args = [docs |-> <<>>, embeddings |-> EmptyDict]

LoadIdle ==
    /\ l_pc = "idle"
    /\ l_file = [exists |-> FALSE, lines |-> <<>>]
    /\ l_result = Returned(EmptyDict)

Init ==
    /\ engine \in Engines
    /\ FORCE_REINDEX \in BOOLEAN
    /\ DEFAULT_TIMEOUT \in 0..MaxTimeout
    /\ ProcInit
    /\ corpus \in {{}, {Key("z")}}
    /\ pending = {}
    /\ index_exists = (corpus # {})
    /\ tmp_file = FALSE
    /\ run = 1
    /\ start_corpus = corpus
    /\ calls = {}
    /\ requests = <<>>
    /\ response = "none"
    /\ JoinIdle
    /\ LoadIdle

Next ==
    \/ wait_for_elasticsearch
    \/ wait_for_solr_core
    \/ wait_for_vespa_config_server
    \/ deploy_vespa_app
    \/ wait_for_vespa_app
    \/ create_index
    \/ count_probe
    \/ load_dataset_to_dict
    \/ load_embeddings_to_dict
    \/ merge_step
    \/ create_vector_field
    \/ es_index_documents
    \/ es_send_batch
    \/ solr_index_documents
    \/ solr_send_batch
    \/ feed_vespa_documents
    \/ vespa_feed_document
    \/ main_return
    \/ NextRun

Spec == Init /\ [][Next]_vars

----------------------------------------------------------------------------
(* SpecGate: the gates of main() alone. A gate is a loop of one thread: its
   next iteration, or the statement after the loop, is always taken *)

NextGate ==
    \/ wait_for_elasticsearch
    \/ wait_for_solr_core
    \/ wait_for_vespa_config_server
    \/ deploy_vespa_app
    \/ wait_for_vespa_app

SpecGate == Init /\ [][NextGate]_vars /\ WF_vars(NextGate)

----------------------------------------------------------------------------
(* SpecJoin: merge_docs_with_embeddings on every bounded input *)

InitJoin ==
    /\ engine = "es"
    /\ FORCE_REINDEX = FALSE
    /\ DEFAULT_TIMEOUT = 0
    /\ ProcInit
    /\ corpus = {}
    /\ pending = {}
    /\ index_exists = FALSE
    /\ tmp_file = FALSE
    /\ run = 1
    /\ start_corpus = {}
    /\ calls = {}
    /\ requests = <<>>
    /\ response = "none"
    /\ j_pc = "call"
    /\ j_docs \in SeqsUpTo(JoinDocs, MaxJoinDocs)
    /\ j_embeddings \in EmbIndexes(EmbKeys, JoinVectors)
    /\ j_merged = <<>>
    /\ j_args = [docs |-> j_docs, embeddings |-> j_embeddings]
    /\ LoadIdle

\* the index is only read (embeddings.get), the documents are only copied
JoinCall ==
    /\ j_pc = "call"
    /\ j_merged' = merge_docs_with_embeddings(j_docs, j_embeddings)
    /\ j_docs' = DocsAfterMerge(j_docs, j_embeddings)
    /\ j_pc' = "returned"
    /\ UNCHANGED <<j_embeddings, j_args, config_vars, proc_vars, engine_vars,
                   hist_vars, load_vars>>

NextJoin == JoinCall

SpecJoin == InitJoin /\ [][NextJoin]_vars

----------------------------------------------------------------------------
(* SpecLoad: load_embeddings_to_dict on every bounded file *)

InitLoad ==
    /\ engine = "es"
    /\ FORCE_REINDEX = FALSE
    /\ DEFAULT_TIMEOUT = 0
    /\ ProcInit
    /\ corpus = {}
    /\ pending = {}
    /\ index_exists = FALSE
    /\ tmp_file = FALSE
    /\ run = 1
    /\ start_corpus = {}
    /\ calls = {}
    /\ requests = <<>>
    /\ response = "none"
    /\ JoinIdle
    /\ l_pc = "call"
    /\ l_file \in EmbeddingsFiles
    /\ l_result = Returned(EmptyDict)

LoadCall ==
    /\ l_pc = "call"
    /\ l_result' = LoadEmbeddings(l_file)
    /\ l_pc' = "ended"
    /\ UNCHANGED <<l_file, config_vars, proc_vars, engine_vars, hist_vars,
                   join_vars>>

NextLoad == LoadCall

SpecLoad == InitLoad /\ [][NextLoad]_vars


----------------------------------------------------------------------------
(* Properties of the joiner, under SpecJoin *)

Abs(x) == IF x < 0 THEN 0 - x ELSE x

\* y is x rounded to 12 decimal digits: a whole number of steps of the 12th
\* digit, and no other such number is nearer to x
IsRounded12(x, y) == y % Scale = 0 /\ 2 * Abs(y - x) <= Scale

\* the document's id, coerced to a string, is a key of the index
IdInIndex(d, e) == Has(d, "id") /\ PyStr(d["id"]) \in DOMAIN e

\* d with its fields other than 'vector'
OtherFields(d) == Pop(d, "vector")

JoinReturned == j_pc = "returned"

\* C7: the joiner's output has the length of its input and position n holds
\* the document made from the n-th input document: nothing is dropped,
\* duplicated or reordered
C7_JoinKeepsLengthAndOrder ==
    JoinReturned =>
        /\ Len(j_merged) = Len(j_docs)
        /\ \A n \in 1..Len(j_docs) : OtherFields(j_merged[n]) = j_docs[n]

\* two different documents, the first unmatched and the second matched
C7_Witness ==
    /\ JoinReturned
    /\ Len(j_docs) = 2
    /\ j_docs[1] # j_docs[2]
    /\ ~Has(j_merged[1], "vector")
    /\ Has(j_merged[2], "vector")

\* C8: a document whose id is a key of the index comes out with a 'vector'
\* that is the index's vector rounded to 12 digits component by component,
\* and with its other fields unchanged
C8_MatchedGetsRoundedVector ==
    JoinReturned =>
        \A n \in 1..Len(j_docs) :
            IdInIndex(j_docs[n], j_embeddings) =>
                LET v == j_embeddings[PyStr(j_docs[n]["id"])]
                    out == j_merged[n]
                IN  /\ Has(out, "vector")
                    /\ Len(out["vector"]) = Len(v)
                    /\ \A c \in 1..Len(v) : IsRounded12(v[c], out["vector"][c])
                    /\ DOMAIN out = DOMAIN j_docs[n] \cup {"vector"}
                    /\ \A f \in DOMAIN j_docs[n] : out[f] = j_docs[n][f]

\* a matched document whose vector has a component that rounding changes, the
\* id being a number matched through its string form
C8_Witness ==
    /\ JoinReturned
    /\ \E n \in 1..Len(j_docs) :
         /\ IdInIndex(j_docs[n], j_embeddings)
         /\ j_docs[n]["id"] = IntId("7")
         /\ j_embeddings["7"] = <<25, -6>>
         /\ j_merged[n]["vector"] = <<20, -10>>

\* C9: a joined document has a 'vector' field if and only if its id is a key
\* of the index
C9_VectorIffIdInIndex ==
    JoinReturned =>
        \A n \in 1..Len(j_docs) :
            Has(j_merged[n], "vector") <=> IdInIndex(j_docs[n], j_embeddings)

\* C10: a document without an id is in the output and has no vector, whatever
\* the keys of the index
C10_NoIdNeverMatched ==
    JoinReturned =>
        /\ Len(j_merged) = Len(j_docs)
        /\ \A n \in 1..Len(j_docs) :
             ~Has(j_docs[n], "id") => ~Has(j_merged[n], "vector")


----------------------------------------------------------------------------
(* Properties of the pipeline, under Spec *)

HealthKinds == {"health", "config_health"}

\* requests that change the engine's documents
WriteKinds == {"bulk", "update", "feed", "delete"}

HasReq(kinds) == \E n \in 1..Len(requests) : requests[n].kind \in kinds

\* everything main() does after the count probe
AfterProbeCalls ==
    {"load_dataset_to_dict", "load_embeddings_to_dict",
     "merge_docs_with_embeddings", "create_vector_field", "index_documents"}

Probed == "count_probe" \in calls

\* the count probe is the request of the last step
JustProbed ==
    /\ Len(requests) > 0
    /\ requests[Len(requests)].kind = "count"
    /\ response # "none"

\* C1: after the probe, the dataset is loaded and the ingestor entered only
\* if the probe returned 0 or FORCE_REINDEX is set, and then the load always
\* happens and a run that ends with status 0 has entered the ingestor; when
\* the probe returned C > 0 and FORCE_REINDEX is not set nothing is loaded,
\* provisioned or written and the process exits with status 0
C1_SkipRule ==
    /\ (Probed /\ count_docs > 0 /\ ~FORCE_REINDEX) =>
          /\ calls \cap AfterProbeCalls = {}
          /\ ~HasReq(WriteKinds \cup {"schema"})
          /\ pc = "exited" /\ exit_status = 0
    /\ (Probed /\ (count_docs = 0 \/ FORCE_REINDEX)) =>
          /\ pc = "load_dataset" \/ "load_dataset_to_dict" \in calls
          /\ (pc = "exited" /\ exit_status = 0) => "index_documents" \in calls
    /\ (calls \cap AfterProbeCalls # {}) =>
          Probed /\ (count_docs = 0 \/ FORCE_REINDEX)

\* a run that found documents in the engine and skipped
C1_Witness ==
    /\ Probed /\ count_docs > 0 /\ ~FORCE_REINDEX
    /\ pc = "exited" /\ exit_status = 0

\* C2 as stated: without FORCE_REINDEX, a run that starts while the engine
\* holds a document sends no write request
C2_NonEmptyEngineNeverWritten ==
    (~FORCE_REINDEX /\ start_corpus # {}) => ~HasReq(WriteKinds)

\* C2 as amended: without FORCE_REINDEX, a run that starts while the engine
\* holds a document and whose count probe is answered with the count sends
\* no write request
C2_ProbedNonEmptyEngineNeverWritten ==
    (/\ ~FORCE_REINDEX
     /\ start_corpus # {}
     /\ \E n \in 1..Len(requests) : requests[n].kind = "count" /\ requests[n].ok)
    => (~HasReq(WriteKinds) /\ calls \cap AfterProbeCalls = {})

\* a second run that skips over what the first run ingested
C2_Witness ==
    /\ run = 2 /\ ~FORCE_REINDEX
    /\ Key("a") \in start_corpus /\ Key("z") \notin start_corpus
    /\ \E n \in 1..Len(requests) : requests[n].kind = "count" /\ requests[n].ok
    /\ pc = "exited"

\* the gate whose success a request of this kind has to wait for
GateOf(kind) == IF kind = "deploy" THEN "config_health" ELSE "health"

\* C3: every request other than a health poll comes after a successful poll
\* of its gate: of the config server for the deployment, of the engine (for
\* vespa the application) for everything else
C3_NothingBeforeGate ==
    \A n \in 1..Len(requests) :
        requests[n].kind \notin HealthKinds =>
            \E m \in 1..(n - 1) :
                requests[m].kind = GateOf(requests[n].kind) /\ requests[m].ok

\* documents fed to vespa after both of its gates
C3_Witness ==
    /\ engine = "vespa"
    /\ HasReq({"deploy"}) /\ HasReq({"count"}) /\ HasReq({"feed"})

GatePcs == {"wait", "wait_config", "wait_app"}

\* the run ended while waiting on a gate
EndedInGate == pc = "exited" /\ error.at \in GatePcs

\* C4: a gate whose attempts are used up without a success fails with the
\* readiness timeout, and a run that ends in a gate exits with a nonzero
\* status without a count probe, a load, a provisioning or a submission
C4_TimeoutIsFatal ==
    /\ (EndedInGate /\ attempt >= DEFAULT_TIMEOUT) => error.type = "ReadinessTimeout"
    /\ (pc \in GatePcs) => attempt <= DEFAULT_TIMEOUT
    /\ EndedInGate =>
          /\ exit_status = 1
          /\ calls \cap (AfterProbeCalls \cup {"count_probe"}) = {}
          /\ ~HasReq(WriteKinds \cup {"count", "schema"})

\* two polls that failed, then the timeout
C4_Witness ==
    /\ EndedInGate
    /\ error.type = "ReadinessTimeout"
    /\ attempt = 2

\* C5: the only error a gate lets out is the readiness timeout
C5_GateOnlyTimesOut == EndedInGate => error.type = "ReadinessTimeout"

\* C6: the count probe returns a natural number and never raises; answered
\* with anything but a count it returns 0 and main() goes on to load and
\* ingest; answered with the count it returns it
C6_ProbeNeverRaises ==
    /\ count_docs \in Nat
    /\ error.at # "count"
    /\ JustProbed =>
          /\ (response # "ok") => (count_docs = 0 /\ pc = "load_dataset")
          /\ (response = "ok") => count_docs = Cardinality(corpus)

\* es answers the probe with a body that is not JSON while it holds a document
C6_Witness ==
    /\ engine = "es"
    /\ JustProbed
    /\ response = "bad_body"
    /\ corpus # {}
    /\ ~FORCE_REINDEX
    /\ pc = "load_dataset"

----------------------------------------------------------------------------
(* The joiner and its arguments, under SpecJoin *)

\* C11: when the joiner has returned, the caller's documents (the sequence,
\* and every field of every document) and the caller's embedding index are
\* what they were when the call was made: a vector is attached to the copy
\* in the output only
C11_InputsNotMutated ==
    JoinReturned =>
        /\ j_docs = j_args.docs
        /\ j_embeddings = j_args.embeddings

\* a returned call that attached a vector to the copy of a document which
\* has no vector itself
C11_Witness ==
    /\ JoinReturned
    /\ \E n \in 1..Len(j_merged) :
          /\ Has(j_merged[n], "vector")
          /\ ~Has(j_args.docs[n], "vector")
          /\ ~Has(j_docs[n], "vector")

----------------------------------------------------------------------------
(* Properties of the ingestors, under Spec *)

BatchKinds == {"bulk", "update"}

SubmitKinds == {"bulk", "update", "feed"}

ReqsOf(kinds) == SelectSeq(requests, LAMBDA q : q.kind \in kinds)

RECURSIVE Bodies(_, _)
Bodies(reqs, n) ==
    IF n > Len(reqs) THEN <<>> ELSE reqs[n].body \o Bodies(reqs, n + 1)

\* the documents submitted so far in the current run, in the order sent
SentDocs == Bodies(ReqsOf(SubmitKinds), 1)

\* what is sent for a document of the working set
Payload(doc) ==
    CASE engine = "es" -> EsSourceLine(doc)
      [] engine = "solr" -> doc
      [] engine = "vespa" -> Pop(doc, "id")

\* the least k with k * b >= n
CeilDiv(n, b) == CHOOSE k \in 0..n : k * b >= n /\ (k = 0 \/ (k - 1) * b < n)

Ingesting == "index_documents" \in calls

\* the ingestor went through the whole working set and returned
IngestDone == Ingesting /\ (pc = "finish" \/ (pc = "exited" /\ error = NoError))

\* C12: with N documents in the working set and batch size B, what has been
\* submitted so far is a prefix of the working set, in order, cut into
\* batches of B documents with only the last one shorter (N mod B, or B when
\* B divides N); when the ingestor has gone through the loop there were
\* ceil(N / B) batches and the N documents were each sent once
C12_ContiguousBatches ==
    Ingesting =>
        LET N == Len(working)
            B == INDEX_BATCH_SIZE
            sent == SentDocs
            batches == ReqsOf(BatchKinds)
            last == IF N % B = 0 THEN B ELSE N % B
        IN  /\ Len(sent) <= N
            /\ \A n \in 1..Len(sent) : sent[n] = Payload(working[n])
            /\ Len(batches) <= CeilDiv(N, B)
            /\ \A k \in 1..Len(batches) :
                  Len(batches[k].body) = IF k < CeilDiv(N, B) THEN B ELSE last
            /\ (engine = "vespa" /\ pc = "batch") =>
                  /\ j < Len(Batch(working, i))
                  /\ Len(sent) = i * B + j
            /\ IngestDone =>
                  /\ Len(sent) = N
                  /\ i = CeilDiv(N, B)
                  /\ engine # "vespa" => Len(batches) = CeilDiv(N, B)

\* a finished ingestion of more than one batch whose last batch is shorter
C12_Witness ==
    /\ IngestDone
    /\ engine = "es"
    /\ Len(ReqsOf(BatchKinds)) >= 2
    /\ Len(working) % INDEX_BATCH_SIZE # 0
    /\ Len(SentDocs) = Len(working)

\* C13: an ingestor given an empty document sequence sends nothing (no
\* batch, no feed, no commit, and for solr with FORCE_REINDEX no delete of
\* everything) and returns normally
C13_EmptySequenceSendsNothing ==
    (Ingesting /\ Len(working) = 0) =>
        /\ ~HasReq(WriteKinds)
        /\ pc \in {"finish", "exited"}
        /\ error = NoError
        /\ pc = "exited" => exit_status = 0

\* solr with FORCE_REINDEX, its ingestor returned from an empty sequence
C13_Witness ==
    /\ engine = "solr" /\ FORCE_REINDEX
    /\ Ingesting /\ Len(working) = 0
    /\ pc = "finish"

\* the positions of the log that hold a request of one of the kinds
At(kinds) == {n \in 1..Len(requests) : requests[n].kind \in kinds}

\* C14: solr, a non-empty working set: of the update requests only the one
\* of the last batch carries commit=true, so a loop gone through has
\* committed once, with its last request; with FORCE_REINDEX one delete of
\* everything is sent, with commit=true, before the first batch, and without
\* FORCE_REINDEX none
C14_SolrCommitsOnLastBatch ==
    (engine = "solr" /\ Ingesting /\ Len(working) > 0) =>
        LET ups == ReqsOf({"update"})
            nb == CeilDiv(Len(working), INDEX_BATCH_SIZE)
        IN  /\ \A k \in 1..Len(ups) : ups[k].commit <=> (k = nb)
            /\ IngestDone =>
                  /\ Cardinality({k \in 1..Len(ups) : ups[k].commit}) = 1
                  /\ requests[Len(requests)].kind = "update"
                  /\ requests[Len(requests)].commit
            /\ Cardinality(At({"delete"})) = IF FORCE_REINDEX THEN 1 ELSE 0
            /\ \A n \in At({"delete"}) :
                  /\ requests[n].commit
                  /\ \A m \in At({"update"}) : n < m

\* solr with FORCE_REINDEX through a loop of more than one batch
C14_Witness ==
    /\ engine = "solr" /\ FORCE_REINDEX
    /\ IngestDone
    /\ Len(ReqsOf({"update"})) >= 2
    /\ Cardinality(At({"delete"})) = 1

\* C15: es and solr: a batch that failed is the last request of the run (it
\* is not sent again and no later batch is sent), and the run has ended on
\* the error raised for it
C15_FailFast ==
    engine \in {"es", "solr"} =>
        \A n \in At(BatchKinds) :
            ~requests[n].ok =>
                /\ n = Len(requests)
                /\ pc = "exited"
                /\ exit_status = 1
                /\ error = [type |-> "BatchFailed", at |-> "batch"]

\* a run whose first batch went through and whose second batch failed
C15_Witness ==
    /\ engine \in {"es", "solr"}
    /\ Len(ReqsOf(BatchKinds)) = 2
    /\ ReqsOf(BatchKinds)[1].ok
    /\ ~ReqsOf(BatchKinds)[2].ok
    /\ Len(working) > INDEX_BATCH_SIZE
    /\ pc = "exited"

\* the failed submissions among the documents of the current batch sent so
\* far (vespa)
FailedInBatch ==
    LET feeds == ReqsOf({"feed"})
        from == i * INDEX_BATCH_SIZE
    IN  Cardinality({n \in (from + 1)..Len(feeds) : ~feeds[n].ok})

\* C16: vespa, for every document sequence: a failed submission does not end
\* the run, it is counted in its batch; when the ingestor is through, every
\* document of the working set has been submitted once, in order, and the
\* overall-success flag is false exactly if a submission failed
C16_BestEffortEveryDocument ==
    (engine = "vespa" /\ Ingesting) =>
        LET feeds == ReqsOf({"feed"})
        IN  /\ pc = "batch" => batch_errors = FailedInBatch
            /\ pc \in {"finish", "exited"} =>
                  /\ error = NoError
                  /\ Len(feeds) = Len(working)
                  /\ \A n \in 1..Len(feeds) :
                        feeds[n].body = <<Pop(working[n], "id")>>
                  /\ index_success <=> \A n \in 1..Len(feeds) : feeds[n].ok

\* the run took the skip branch: probed, and loaded nothing
Skipped == Probed /\ "load_dataset_to_dict" \notin calls

\* C17: a run that ended with exit status 0 either skipped or went through
\* its ingestor with every batch or document submission accepted: a gate
\* that timed out, a dataset that did not load, a provisioning or ingestion
\* failure, a failed document submission all end the run with another status
C17_ZeroOnlyOnSuccess ==
    (pc = "exited" /\ exit_status = 0) =>
        \/ Skipped
        \/ /\ IngestDone
           /\ \A n \in At(SubmitKinds) : requests[n].ok

----------------------------------------------------------------------------
(* Properties of the schema provisioner and of the two paths, under Spec *)

\* the last step sent the schema request
JustProvisioned ==
    /\ Len(requests) > 0
    /\ requests[Len(requests)].kind = "schema"
    /\ response # "none"

VectorPath == "load_embeddings_to_dict" \in calls /\ embeddings # EmptyDict

\* C18: es and solr: no run sends more than one schema request; a run on the
\* vector path that has reached its ingestor has sent exactly one, before
\* every batch (and delete), declaring the dimension inferred from a vector
\* of the index; and when the engine answers that the field exists already
\* the run goes on to ingestion
C18_OneProvisionBeforeBatches ==
    engine \in {"es", "solr"} =>
        /\ Cardinality(At({"schema"})) <= 1
        /\ (VectorPath /\ Ingesting) =>
              /\ Cardinality(At({"schema"})) = 1
              /\ \A n \in At({"schema"}) :
                    /\ \E k \in DOMAIN embeddings :
                          requests[n].body = <<Len(embeddings[k])>>
                    /\ \A m \in At(WriteKinds) : n < m
        /\ (JustProvisioned /\ response = "already_exists") =>
              /\ pc = "index"
              /\ exit_status = RUNNING
              /\ error = NoError

\* a run whose schema request was answered with an error status and whose
\* first batch went through after it
C18_Witness ==
    /\ engine \in {"es", "solr"}
    /\ VectorPath
    /\ \E n \in At({"schema"}) :
          /\ ~requests[n].ok
          /\ \E m \in At(BatchKinds) : n < m /\ requests[m].ok

\* C19: in the vector path a schema request that failed (the engine was not
\* reached, or it rejected the request) has ended the run with a nonzero
\* exit status, and no batch was submitted
C19_ProvisionFailureIsFatal ==
    (JustProvisioned /\ response \in {"rejected", "transport_error"}) =>
        /\ pc = "exited"
        /\ exit_status = 1
        /\ ~HasReq(WriteKinds)

PlainPath == "load_embeddings_to_dict" \in calls /\ embeddings = EmptyDict

----------------------------------------------------------------------------
(* Properties of the scratch file, under Spec *)

\* C21: when a run that took the no-embeddings path has ended, with its
\* ingestion gone through or not, TMP_FILE does not exist
C21_PlainRunRemovesScratchFile ==
    (pc = "exited" /\ PlainPath) => ~tmp_file

\* C22: a run that has called the joiner goes on to provisioning and to the
\* ingestion of the merged documents, whether the write of TMP_FILE went
\* through or failed: it has not ended in the joiner, and its working set
\* is the joiner's result
C22_ScratchWriteIsBestEffort ==
    "merge_docs_with_embeddings" \in calls =>
        /\ error.at # "merge"
        /\ working = merge_docs_with_embeddings(docs, embeddings)

----------------------------------------------------------------------------
(* Properties of the embeddings loader, under SpecLoad *)

\* a line with an object that has an id and a list-valued vector
WellFormed(line) ==
    /\ line.json = "object"
    /\ Has(line.row, "id")
    /\ VectorIsList(line.row)

\* the index of the well-formed lines: under the string of its id, the
\* vector of the last well-formed line with that id
IndexOfWellFormed(lines) ==
    LET wf == {n \in 1..Len(lines) : WellFormed(lines[n])}
        key(n) == PyStr(lines[n].row["id"])
        last(k) == CHOOSE n \in wf : key(n) = k /\ \A m \in wf : key(m) = k => m <= n
    IN  [k \in {key(n) : n \in wf} |-> lines[last(k)].row["vector"].v]

\* C23: for every file content the loader returns normally, and the index
\* returned holds every well-formed line: the other lines (not JSON, JSON
\* that is not an object, an object without an id or without a list-valued
\* vector) are skipped
C23_MalformedLinesAreSkipped ==
    l_pc = "ended" =>
        /\ ~l_result.raised
        /\ l_result.value = IndexOfWellFormed(l_file.lines)

----------------------------------------------------------------------------
(* Properties of the readiness gates, under SpecGate *)

InGate == pc \in GatePcs

\* the step's request was answered with success
Succeeds == response' \in {"ok", "up"}

\* a step taken inside a gate: with attempts left it is one attempt, which
\* either succeeds and leaves the gate or is counted; with none left it is
\* the timeout, raised without a further request
GateStep ==
    InGate =>
        /\ Succeeds => (pc' \notin GatePcs /\ pc' # "exited")
        /\ pc' = pc => (attempt' = attempt + 1 /\ attempt' <= DEFAULT_TIMEOUT)
        /\ attempt >= DEFAULT_TIMEOUT =>
              /\ pc' = "exited"
              /\ error'.type = "ReadinessTimeout"
              /\ requests' = requests
        /\ error'.type = "ReadinessTimeout" => attempt = DEFAULT_TIMEOUT

\* C24: for every DEFAULT_TIMEOUT T >= 0 and whatever the health requests
\* are answered, a gate makes at most T attempts, returns at the first
\* successful one, raises the timeout after exactly T failed attempts (none
\* when T = 0), and is always left
C24_GateIsBounded ==
    /\ [](InGate => attempt <= DEFAULT_TIMEOUT)
    /\ [][GateStep]_vars
    /\ (InGate ~> ~InGate)

\* the timeout of a gate whose every attempt failed, with the largest T
C24_Witness ==
    /\ EndedInGate
    /\ error.type = "ReadinessTimeout"
    /\ DEFAULT_TIMEOUT = MaxTimeout
    /\ attempt = DEFAULT_TIMEOUT
    /\ requests = <<>>

----------------------------------------------------------------------------
(* Properties of what is submitted and of what the engine holds, under Spec *)

RECURSIVE KeysOf(_, _)
KeysOf(reqs, n) ==
    IF n > Len(reqs) THEN <<>> ELSE reqs[n].keys \o KeysOf(reqs, n + 1)

\* the routing keys sent so far by es and vespa, in the order sent
SentKeys == KeysOf(ReqsOf({"bulk", "feed"}), 1)

\* C25: es and vespa: the n-th document submitted is the n-th of the working
\* set; it is sent under the routing key str(id) (the _id of its action
\* line, the docid of its feed URL) and its payload is the document without
\* the field id. (es sends a document that has no id without a routing key,
\* as it is; vespa never submits one)
C25_IdIsRoutingKey ==
    (engine \in {"es", "vespa"} /\ Ingesting) =>
        /\ Len(SentKeys) = Len(SentDocs)
        /\ \A n \in 1..Len(SentDocs) :
              LET d == working[n]
              IN  IF Has(d, "id")
                  THEN /\ SentKeys[n] = Routed(PyStr(d["id"]))
                       /\ ~Has(SentDocs[n], "id")
                       /\ SentDocs[n] = Pop(d, "id")
                  ELSE /\ engine = "es"
                       /\ SentKeys[n] = Unrouted
                       /\ SentDocs[n] = d

\* es has sent the document whose id is the number 7 under the key "7"
C25_Witness ==
    /\ engine = "es" /\ Ingesting
    /\ \E n \in 1..Len(SentDocs) :
          /\ Has(working[n], "id")
          /\ working[n]["id"] = IntId("7")
          /\ SentKeys[n] = Routed("7")

\* C26: es and solr: an ingestor that returned normally, with its summary of
\* success, had every batch taken by the engine whole: no batch failed and
\* no response reported a rejected document
C26_SuccessMeansAllAccepted ==
    (engine \in {"es", "solr"} /\ IngestDone) =>
        \A n \in At(BatchKinds) : requests[n].ok /\ ~requests[n].errors

\* C27: solr with FORCE_REINDEX: a run that ended on a failed batch has left
\* in the visible index the documents that were committed when it started
C27_AbortedReindexKeepsOldCorpus ==
    (/\ engine = "solr" /\ FORCE_REINDEX
     /\ pc = "exited" /\ error.type = "BatchFailed")
    => start_corpus \subseteq corpus

\* the keys of the documents of a dataset, all of which have an id
DatasetKeys(ds) == {Key(PyStr(ds[n]["id"])) : n \in 1..Len(ds)}

AllHaveId(ds) == \A n \in 1..Len(ds) : Has(ds[n], "id")

\* every request of the run was answered with success, and no response
\* reported a rejected document
EveryRequestSucceeded ==
    \A n \in 1..Len(requests) : requests[n].ok /\ ~requests[n].errors

\* C28: every engine: when a run with FORCE_REINDEX has gone through with
\* every request successful, the engine holds the dataset and nothing else:
\* each document under its id, and none of the documents it held before
\* whose id is not in the dataset
C28_ReindexLeavesExactlyTheDataset ==
    (/\ FORCE_REINDEX
     /\ pc = "exited" /\ exit_status = 0
     /\ IngestDone
     /\ AllHaveId(docs)
     /\ EveryRequestSucceeded)
    => corpus = DatasetKeys(docs)

====
